---- MODULE Spec2Model ----
(***************************************************************************)
(* Model of the download-cache-decompress pipeline of nw-builder (`get`):  *)
(* get -> getNwjs -> getFfmpeg -> getNodeHeaders, over a cache directory   *)
(* that persists from one run of get to the next.                          *)
(***************************************************************************)
EXTENDS Naturals, Sequences, FiniteSets

\* Bounds of the model.
MaxRuns == 2
NEntries == 3
MaxChunks == 2

Kinds == {"runtime", "codec", "headers"}
Platforms == {"linux", "osx", "win"}
Hosts == {"darwin", "linux"}
DefaultUrl == "https://dl.nwjs.io"
MirrorUrls == {"https://npm.taobao.org/mirrors/nwjs", "https://npmmirror.com/mirrors/nwjs"}
OtherUrls == {"https://cnpmjs.org/mirrors/nwjs/"}
Urls == {DefaultUrl} \cup MirrorUrls \cup OtherUrls
Entries == 1..NEntries
Versions == {"0.82.0", "latest"}
Flavors == {"normal", "sdk"}
Archs == {"ia32", "x64", "arm64"}
Targets == [version : Versions, flavor : Flavors, platform : Platforms, arch : Archs]
CacheDir == "./cache"
FfmpegUrl == "https://github.com/nwjs-ffmpeg-prebuilt/nwjs-ffmpeg-prebuilt/releases/download"
HeadersUrl == "https://dl.nwjs.io/"
\* The value of a location header, and what url holds when the header is absent.
Location == "https://location.example/archive"
Undefined == "undefined"
NoDir == [exists |-> FALSE, entries |-> {}, mode |-> "none", codec |-> "none"]

VARIABLES
  cache,        \* options.cache of the current run
  ffmpeg,       \* options.ffmpeg
  nativeAddon,  \* options.nativeAddon: "false" or "gyp"
  platform,     \* options.platform
  PLATFORM,     \* process.platform of the host
  downloadUrl,  \* options.downloadUrl
  version,      \* options.version
  flavor,       \* options.flavor
  arch,         \* options.arch
  url,          \* the url of the promise executor: where the next request goes
  located,      \* two (target, kind) pairs and the archive path computed for each
  transfer,     \* one fetch, event by event: responses, chunks, write stream, promise
  runs,         \* number of runs of get started so far
  pc,           \* where the run is: a stage, or idle/resolved/rejected/crashed
  kind,         \* the pipeline the run is in: runtime, codec, headers, or none
  out,          \* per kind, the archive file at its cache path: none/partial/junk/good
  stream,       \* per kind, the write stream on `out`: none/open/ending/finished
  body,         \* per kind, what the downloaded response carries: none/good/junk
  nwDir,        \* the extracted runtime directory
  node,         \* TRUE when cacheDir/node exists
  nodeDir,      \* cacheDir/node-v{version}-{platform}-{arch}: none/plain/patched
  patch,        \* the child process of exec("patch ..."): none/running/done
  zip,          \* the yauzl handle: none/open/closed
  entryIdx,     \* next entry of the walk
  failed,       \* the entry whose extraction threw, 0 when none
  log,          \* operations of the current run, in order: <<op, kind>>
  prev          \* how the previous run ended: its outcome, options and tree

vars == <<cache, ffmpeg, nativeAddon, platform, PLATFORM, downloadUrl, version, flavor,
          arch, url, located, transfer, runs, pc, kind,
          out, stream, body, nwDir, node, nodeDir, patch, zip, entryIdx, failed, log, prev>>
options == <<ffmpeg, nativeAddon, platform, PLATFORM, downloadUrl, version, flavor, arch,
            located, transfer>>
walk == <<zip, entryIdx, failed>>
dirs == <<nwDir, node, nodeDir>>

Settled == {"idle", "resolved", "rejected", "crashed"}

\* Nothing has run and the cache directory is empty.
Fresh ==
  /\ runs = 0
  /\ pc = "idle"
  /\ kind = "none"
  /\ out = [k \in Kinds |-> "none"]
  /\ stream = [k \in Kinds |-> "none"]
  /\ body = [k \in Kinds |-> "none"]
  /\ nwDir = NoDir
  /\ node = FALSE
  /\ nodeDir = "none"
  /\ patch = "none"
  /\ zip = "none"
  /\ entryIdx = 0
  /\ failed = 0
  /\ log = <<>>
  /\ prev = [outcome |-> "idle", cache |-> cache, benign |-> TRUE, nwDir |-> NoDir, nodeDir |-> FALSE]

Init ==
  /\ cache = TRUE
  /\ ffmpeg \in BOOLEAN
  /\ nativeAddon \in {"false", "gyp"}
  /\ platform \in Platforms
  /\ PLATFORM \in Hosts
  /\ downloadUrl \in Urls
  /\ version = "0.82.0"
  /\ flavor \in Flavors
  /\ arch = "x64"
  /\ url = ""
  /\ located = <<>>
  /\ transfer = <<>>
  /\ Fresh

Logged(op) == Append(log, <<op, kind>>)

\* The operations that record a failure of the network, of a stream or of an entry.
Failures == {"request_undefined", "request_error", "response_error", "stream_error",
             "entry_error", "uncompress_error", "open_zip_error"}

\* The run met no such failure, and every response carried the archive.
Benign ==
  /\ \A i \in 1..Len(log) : log[i][1] \notin Failures
  /\ \A k \in Kinds : body[k] # "junk"

StartOp(k) == IF out[k] # "none" THEN "start_present" ELSE "start_absent"

\* The call of get: a new run, in a process of its own; getNwjs is called first.
get ==
  /\ pc \in Settled
  /\ runs < MaxRuns
  /\ pc = "crashed" \/ (patch # "running" /\ \A k \in Kinds : stream[k] # "ending")
  /\ runs' = runs + 1
  /\ cache' \in BOOLEAN
  /\ pc' = "invalidate"
  /\ kind' = "runtime"
  /\ stream' = [k \in Kinds |-> "none"]
  /\ body' = [k \in Kinds |-> "none"]
  /\ patch' = "none"
  /\ zip' = "none"
  /\ entryIdx' = 0
  /\ failed' = 0
  /\ log' = <<<<StartOp("runtime"), "runtime">>>>
  /\ url' = ""
  /\ prev' = [outcome |-> pc, cache |-> cache, benign |-> Benign,
              nwDir |-> nwDir, nodeDir |-> nodeDir # "none"]
  /\ UNCHANGED <<options, out, dirs>>

NextKindUnconditional(k) ==
  IF k = "runtime" THEN "codec"
  ELSE IF k = "codec" THEN "headers"
  ELSE "none"

\* The pipeline get calls after pipeline k resolved, "none" when get is done.
NextKind(k) ==
  IF k = "runtime" /\ ffmpeg = TRUE THEN "codec"
  ELSE IF k \in {"runtime", "codec"} /\ nativeAddon = "gyp" THEN "headers"
  ELSE "none"

\* The current pipeline resolves after the operations of lg: get goes on.
Resolve(lg) ==
  LET nxt == NextKind(kind) IN
  IF nxt = "none"
    THEN pc' = "resolved" /\ kind' = "none" /\ log' = lg
    ELSE pc' = "invalidate" /\ kind' = nxt /\ log' = Append(lg, <<StartOp(nxt), nxt>>)

\* The current pipeline rejects: the await in get throws and get rejects.
Reject(lg) == pc' = "rejected" /\ log' = lg /\ UNCHANGED kind

\* An 'error' event without a listener: the process dies, get never settles.
Crash(lg) == pc' = "crashed" /\ log' = lg /\ UNCHANGED kind

\* if (cache === false) await rm(out, {recursive, force})
Invalidate ==
  /\ pc = "invalidate"
  /\ pc' = "check"
  /\ IF cache = FALSE
       THEN out' = [out EXCEPT ![kind] = "none"] /\ log' = Logged("rm_out")
       ELSE UNCHANGED <<out, log>>
  /\ UNCHANGED <<prev, url, cache, options, runs, kind, stream, body, dirs, patch, walk>>

\* The first stage of the cache-hit path of each pipeline.
HitStage(k) == IF k = "runtime" THEN "hit_rm" ELSE "hit_unc"

ExistsIgnored(k) == FALSE

\* existsSync(out) === true
Exists(k) == out[k] # "none"

\* The cache check: the hit path, or on to createWriteStream.
Check ==
  /\ pc = "check"
  /\ IF Exists(kind)
       THEN pc' = HitStage(kind) /\ log' = Logged("exists_hit")
       ELSE pc' = "create" /\ log' = Logged("exists_miss")
  /\ UNCHANGED <<prev, url, cache, options, runs, kind, out, stream, body, dirs, patch, walk>>

\* What an extraction reading out[k] can find: a complete archive or not. While
\* the write stream has not finished, the read races with the pending writes.
Readable(k) ==
  IF stream[k] = "ending"
    THEN IF body[k] = "good" THEN {TRUE, FALSE} ELSE {FALSE}
    ELSE {out[k] = "good"}

AllEntries == [exists |-> TRUE, entries |-> Entries, mode |-> "bulk", codec |-> "none"]

-----------------------------------------------------------------------------
\* The names, paths and urls computed from a target t.

\* platform === "linux" ? "tar.gz" : "zip"
Ext(t) == IF t.platform = "linux" THEN "tar.gz" ELSE "zip"

\* nwjs${flavor === "sdk" ? "-sdk" : ""}-v${version}-${platform}-${arch}
NwName(t) ==
  "nwjs" \o (IF t.flavor = "sdk" THEN "-sdk" ELSE "") \o "-v" \o t.version
         \o "-" \o t.platform \o "-" \o t.arch

\* resolve(cacheDir, name)
ResolvePath(dir, name) == dir \o "/" \o name

\* A runtime archive named without its flavor.
OutPathNoFlavor(t, k) ==
  CASE k = "runtime" ->
         ResolvePath(CacheDir, "nwjs-v" \o t.version \o "-" \o t.platform \o "-" \o t.arch
                                \o "." \o Ext(t))
    [] k = "codec" ->
         ResolvePath(CacheDir, "ffmpeg-v" \o t.version \o "-" \o t.platform \o "-" \o t.arch \o ".zip")
    [] k = "headers" ->
         ResolvePath(CacheDir, "headers-v" \o t.version \o "-" \o t.platform \o "-" \o t.arch \o ".tar.gz")

\* The archive path `out` of each pipeline.
OutPath(t, k) ==
  CASE k = "runtime" -> ResolvePath(CacheDir, NwName(t) \o "." \o Ext(t))
    [] k = "codec" ->
         ResolvePath(CacheDir, "ffmpeg-v" \o t.version \o "-" \o t.platform \o "-" \o t.arch \o ".zip")
    [] k = "headers" ->
         ResolvePath(CacheDir, "headers-v" \o t.version \o "-" \o t.platform \o "-" \o t.arch \o ".tar.gz")

\* The target of the current run.
Target == [version |-> version, flavor |-> flavor, platform |-> platform, arch |-> arch]

\* The archive paths of two (target, kind) pairs, computed in one cacheDir.
NotLocated == ""

InitPath ==
  /\ located \in [a : [target : Targets, kind : Kinds, path : {NotLocated}],
                   b : [target : Targets, kind : Kinds, path : {NotLocated}]]
  /\ cache = TRUE
  /\ ffmpeg = FALSE
  /\ nativeAddon = "false"
  /\ platform = "linux"
  /\ PLATFORM = "linux"
  /\ downloadUrl = DefaultUrl
  /\ version = "0.82.0"
  /\ flavor = "normal"
  /\ arch = "x64"
  /\ url = ""
  /\ transfer = <<>>
  /\ Fresh

Locate ==
  /\ located.a.path = NotLocated
  /\ located' = [a |-> [located.a EXCEPT !.path = OutPath(located.a.target, located.a.kind)],
                 b |-> [located.b EXCEPT !.path = OutPath(located.b.target, located.b.kind)]]
  /\ UNCHANGED <<cache, ffmpeg, nativeAddon, platform, PLATFORM, downloadUrl, version, flavor,
                 arch, url, transfer, runs, pc, kind, out, stream, body, dirs, patch, walk,
                 log, prev>>

NextPath == Locate

SpecPath == InitPath /\ [][NextPath]_vars

-----------------------------------------------------------------------------
\* The fetch: createWriteStream, the requests, the response events.

\* The url of the first request of getNwjs: built only for three hosts.
UrlBuilt == downloadUrl = DefaultUrl \/ downloadUrl \in MirrorUrls

\* A fetch that never takes the location header.
FollowsRedirectNever(k) == FALSE

\* Whether the second request goes to response.headers.location.
FollowsRedirect(k) == k = "codec" \/ (k = "runtime" /\ downloadUrl \in MirrorUrls)

\* The url of the first request of each pipeline; getNwjs leaves url = "" for a
\* downloadUrl that is none of the three hosts.
FirstUrl(k) ==
  CASE k = "runtime" ->
         IF UrlBuilt
           THEN downloadUrl \o "/v" \o version \o "/" \o NwName(Target) \o "." \o Ext(Target)
           ELSE ""
    [] k = "codec" ->
         FfmpegUrl \o "/" \o version \o "/" \o version \o "-" \o platform \o "-" \o arch \o ".zip"
    [] k = "headers" ->
         HeadersUrl \o "/v" \o version \o "/nw-headers-v" \o version \o ".tar.gz"

\* createWriteStream(out) and the promise executor up to the first getRequest;
\* getRequest("") throws in the executor and the promise is rejected.
Create ==
  /\ pc = "create"
  /\ out' = [out EXCEPT ![kind] = "partial"]
  /\ stream' = [stream EXCEPT ![kind] = "open"]
  /\ url' = FirstUrl(kind)
  /\ IF FirstUrl(kind) = ""
       THEN Reject(Logged("createWriteStream"))
       ELSE /\ pc' = "req1"
            /\ log' = Logged("createWriteStream") \o <<<<"request", kind>>>>
            /\ UNCHANGED kind
  /\ UNCHANGED <<prev, cache, options, runs, body, dirs, patch, walk>>

\* The first response is delivered. getNodeHeaders streams it; getNwjs and
\* getFfmpeg send a second request, to the location header when they follow the
\* redirect (undefined when the header is absent).
Response1 ==
  /\ pc = "req1"
  /\ IF kind = "headers"
       THEN /\ \E b \in {"good", "junk"} : body' = [body EXCEPT ![kind] = b]
            /\ pc' = "body"
            /\ log' = Logged("response")
            /\ UNCHANGED url
       ELSE /\ \E location \in BOOLEAN :
                 /\ url' = IF FollowsRedirect(kind)
                             THEN (IF location THEN Location ELSE Undefined)
                             ELSE url
                 /\ IF FollowsRedirect(kind) /\ ~location
                      THEN pc' = "req2_undefined" /\ log' = Logged("request_undefined")
                      ELSE pc' = "req2" /\ log' = Logged("request")
            /\ UNCHANGED body
  /\ UNCHANGED <<prev, cache, options, runs, kind, out, stream, dirs, patch, walk>>

\* The second response is delivered, with a success or a non-success status.
Response2 ==
  /\ pc = "req2"
  /\ \E b \in {"good", "junk"} : body' = [body EXCEPT ![kind] = b]
  /\ pc' = "body"
  /\ log' = Logged("response")
  /\ UNCHANGED <<prev, url, cache, options, runs, kind, out, stream, dirs, patch, walk>>

\* A connection-level failure: 'error' on the ClientRequest, which has no listener.
RequestError ==
  /\ pc \in {"req1", "req2", "req2_undefined"}
  /\ Crash(Logged("request_error"))
  /\ UNCHANGED <<prev, url, cache, options, runs, out, stream, body, dirs, patch, walk>>

\* getRequest(undefined, callback): the callback is not registered, so when the
\* request is answered the response goes to no listener: resolve and reject are
\* never called and nothing is pending any more.
ResponseDropped ==
  /\ pc = "req2_undefined"
  /\ pc' = "hung"
  /\ log' = Logged("response_dropped")
  /\ UNCHANGED <<prev, url, cache, options, runs, kind, out, stream, body, dirs, patch, walk>>

\* The first stage of the then-callback of each pipeline.
ThenStage(k) == IF k = "runtime" THEN "post_rm" ELSE "post_unc"

\* response 'end': bar.stop(), resolve(), and pipe ends the write stream.
ResponseEnd ==
  /\ pc = "body"
  /\ stream' = [stream EXCEPT ![kind] = "ending"]
  /\ pc' = ThenStage(kind)
  /\ log' = Logged("end")
  /\ UNCHANGED <<prev, url, cache, options, runs, kind, out, body, dirs, patch, walk>>

\* response 'error': reject(error).
ResponseError ==
  /\ pc = "body"
  /\ Reject(Logged("response_error"))
  /\ UNCHANGED <<prev, url, cache, options, runs, out, stream, body, dirs, patch, walk>>

\* 'error' on the write stream, which has no listener.
StreamError ==
  /\ pc = "body"
  /\ Crash(Logged("stream_error"))
  /\ UNCHANGED <<prev, url, cache, options, runs, out, stream, body, dirs, patch, walk>>

\* The write stream of kind k has flushed its last bytes: 'finish'.
StreamFinish(k) ==
  /\ stream[k] = "ending"
  /\ pc # "crashed"
  /\ stream' = [stream EXCEPT ![k] = "finished"]
  /\ out' = [out EXCEPT ![k] = body[k]]
  /\ UNCHANGED <<prev, url, cache, options, runs, pc, kind, body, dirs, patch, walk, log>>

-----------------------------------------------------------------------------
\* getNwjs: the cache-hit path and the then-callback.

\* The entry-walk strategy is taken for an osx target on an osx host.
EntryWalk == platform = "osx" /\ PLATFORM = "darwin"

\* Cache hit: await rm(nwDir)
NwHitRm ==
  /\ pc = "hit_rm" /\ kind = "runtime"
  /\ nwDir' = NoDir
  /\ pc' = "hit_unc"
  /\ log' = Logged("rm_dir")
  /\ UNCHANGED <<prev, url, cache, options, runs, kind, out, stream, body, node, nodeDir, patch, walk>>

\* Cache hit: await compressing[tgz|zip].uncompress(out, cacheDir); return
NwHitUncompress ==
  /\ pc = "hit_unc" /\ kind = "runtime"
  /\ \E ok \in Readable(kind) :
       IF ok THEN nwDir' = AllEntries /\ Resolve(Logged("uncompress"))
             ELSE UNCHANGED nwDir /\ Reject(Logged("uncompress_error"))
  /\ UNCHANGED <<prev, url, cache, options, runs, out, stream, body, node, nodeDir, patch, walk>>

\* The stage after the removal of the then-callback: the strategy chosen.
StrategyStage == IF EntryWalk THEN "walk_open" ELSE "post_unc"

\* then-callback: await rm(nwDir)
NwRm ==
  /\ pc = "post_rm" /\ kind = "runtime"
  /\ nwDir' = NoDir
  /\ pc' = StrategyStage
  /\ log' = Logged("rm_dir")
  /\ UNCHANGED <<prev, url, cache, options, runs, kind, out, stream, body, node, nodeDir, patch, walk>>

\* then-callback, bulk strategy: await compressing[tgz|zip].uncompress(out, cacheDir)
NwUncompress ==
  /\ pc = "post_unc" /\ kind = "runtime"
  /\ \E ok \in Readable(kind) :
       IF ok THEN nwDir' = AllEntries /\ Resolve(Logged("uncompress"))
             ELSE UNCHANGED nwDir /\ Reject(Logged("uncompress_error"))
  /\ UNCHANGED <<prev, url, cache, options, runs, out, stream, body, node, nodeDir, patch, walk>>

\* const zip = await yauzl.open(out): outside the try block.
NwWalkOpen ==
  /\ pc = "walk_open" /\ kind = "runtime"
  /\ \E ok \in Readable(kind) :
       IF ok THEN /\ zip' = "open" /\ entryIdx' = 1
                  /\ pc' = "walk" /\ log' = Logged("open_zip")
                  /\ UNCHANGED kind
             ELSE UNCHANGED <<zip, entryIdx>> /\ Reject(Logged("open_zip_error"))
  /\ UNCHANGED <<prev, url, cache, options, runs, out, stream, body, dirs, patch, failed>>

\* One turn of the for-await loop that ends normally: the entry is extracted.
NwWalkEntry ==
  /\ pc = "walk" /\ entryIdx \in Entries
  /\ nwDir' = [nwDir EXCEPT !.exists = TRUE, !.entries = @ \cup {entryIdx}, !.mode = "walk"]
  /\ entryIdx' = entryIdx + 1
  /\ pc' = IF entryIdx = NEntries THEN "walk_close" ELSE "walk"
  /\ log' = Logged("entry")
  /\ UNCHANGED <<prev, url, cache, options, runs, kind, out, stream, body, node, nodeDir, patch, zip, failed>>

NwWalkThrowNoFinally ==
  /\ pc = "walk" /\ entryIdx \in Entries
  /\ failed' = entryIdx
  /\ Resolve(Logged("entry_error"))
  /\ UNCHANGED <<prev, url, cache, options, runs, out, stream, body, dirs, patch, zip, entryIdx>>

NwWalkThrowRethrown ==
  /\ pc = "walk" /\ entryIdx \in Entries
  /\ failed' = entryIdx
  /\ zip' = "closed"
  /\ Reject(Logged("entry_error"))
  /\ UNCHANGED <<prev, url, cache, options, runs, out, stream, body, dirs, patch, entryIdx>>

\* One turn of the loop that throws (mkdir, openReadStream, a stream 'error'):
\* catch (e) { console.error(e) } leaves the loop, then finally.
NwWalkThrow ==
  /\ pc = "walk" /\ entryIdx \in Entries
  /\ failed' = entryIdx
  /\ pc' = "walk_close"
  /\ log' = Logged("entry_error")
  /\ UNCHANGED <<prev, url, cache, options, runs, kind, out, stream, body, dirs, patch, zip, entryIdx>>

\* finally { await zip.close() }, and the then-callback returns.
NwWalkClose ==
  /\ pc = "walk_close"
  /\ zip' = "closed"
  /\ Resolve(Logged("close_zip"))
  /\ UNCHANGED <<prev, url, cache, options, runs, out, stream, body, dirs, patch, entryIdx, failed>>

-----------------------------------------------------------------------------
\* getFfmpeg: the cache-hit path and the then-callback.

\* Cache hit: await compressing.zip.uncompress(out, nwDir); return
FfHitUncompress ==
  /\ pc = "hit_unc" /\ kind = "codec"
  /\ \E ok \in Readable(kind) :
       IF ok THEN /\ nwDir' = [nwDir EXCEPT !.exists = TRUE, !.codec = "root"]
                  /\ Resolve(Logged("uncompress"))
             ELSE UNCHANGED nwDir /\ Reject(Logged("uncompress_error"))
  /\ UNCHANGED <<prev, url, cache, options, runs, out, stream, body, node, nodeDir, patch, walk>>

\* then-callback: await compressing.zip.uncompress(out, nwDir)
FfUncompress ==
  /\ pc = "post_unc" /\ kind = "codec"
  /\ \E ok \in Readable(kind) :
       IF ok THEN /\ nwDir' = [nwDir EXCEPT !.exists = TRUE, !.codec = "root"]
                  /\ pc' = "post_reloc" /\ log' = Logged("uncompress")
                  /\ UNCHANGED kind
             ELSE UNCHANGED nwDir /\ Reject(Logged("uncompress_error"))
  /\ UNCHANGED <<prev, url, cache, options, runs, out, stream, body, node, nodeDir, patch, walk>>

\* then-callback: await replaceFfmpeg(platform, nwDir)
FfReplace ==
  /\ pc = "post_reloc" /\ kind = "codec"
  /\ nwDir' = [nwDir EXCEPT !.codec = "relocated"]
  /\ Resolve(Logged("replaceFfmpeg"))
  /\ UNCHANGED <<prev, url, cache, options, runs, out, stream, body, node, nodeDir, patch, walk>>

-----------------------------------------------------------------------------
\* getNodeHeaders: the cache-hit path and the then-callback.

\* rename(cacheDir/node, cacheDir/node-v...) succeeds when the source exists and
\* the destination is not a directory with content.
RenameOk == node /\ nodeDir = "none"

\* Cache hit: await compressing.tgz.uncompress(out, cacheDir)
HdHitUncompress ==
  /\ pc = "hit_unc" /\ kind = "headers"
  /\ \E ok \in Readable(kind) :
       IF ok THEN /\ node' = TRUE
                  /\ pc' = "hit_rm" /\ log' = Logged("uncompress")
                  /\ UNCHANGED kind
             ELSE UNCHANGED node /\ Reject(Logged("uncompress_error"))
  /\ UNCHANGED <<prev, url, cache, options, runs, out, stream, body, nwDir, nodeDir, patch, walk>>

\* Cache hit: await rm(cacheDir/node-v...)
HdHitRm ==
  /\ pc = "hit_rm" /\ kind = "headers"
  /\ nodeDir' = "none"
  /\ pc' = "hit_rename"
  /\ log' = Logged("rm_dir")
  /\ UNCHANGED <<prev, url, cache, options, runs, kind, out, stream, body, nwDir, node, patch, walk>>

\* Cache hit: await rename(cacheDir/node, cacheDir/node-v...)
HdHitRename ==
  /\ pc = "hit_rename" /\ kind = "headers"
  /\ IF RenameOk
       THEN /\ nodeDir' = "plain" /\ node' = FALSE
            /\ pc' = "hit_patch" /\ log' = Logged("rename")
            /\ UNCHANGED kind
       ELSE UNCHANGED <<node, nodeDir>> /\ Reject(Logged("rename_error"))
  /\ UNCHANGED <<prev, url, cache, options, runs, out, stream, body, nwDir, patch, walk>>

\* Cache hit: exec("patch ...", callback) is not awaited; return
HdHitPatch ==
  /\ pc = "hit_patch" /\ kind = "headers"
  /\ patch' = "running"
  /\ Resolve(Logged("exec_patch"))
  /\ UNCHANGED <<prev, url, cache, options, runs, out, stream, body, dirs, walk>>

\* A patch command whose error is raised to the caller of get.
PatchExitRaises ==
  /\ patch = "running"
  /\ pc # "crashed"
  /\ \E ok \in BOOLEAN :
       /\ patch' = IF ok THEN "done" ELSE "failed"
       /\ pc' = IF ok THEN pc ELSE "rejected"
       /\ nodeDir' = IF ok /\ nodeDir = "plain" THEN "patched" ELSE nodeDir
  /\ UNCHANGED <<prev, url, cache, options, runs, kind, out, stream, body, nwDir, node, walk, log>>

\* The patch command exits; on an error its callback only calls console.error.
PatchExit ==
  /\ patch = "running"
  /\ pc # "crashed"
  /\ \E ok \in BOOLEAN :
       /\ patch' = IF ok THEN "done" ELSE "failed"
       /\ nodeDir' = IF ok /\ nodeDir = "plain" THEN "patched" ELSE nodeDir
  /\ UNCHANGED <<prev, url, cache, options, runs, pc, kind, out, stream, body, nwDir, node, walk, log>>

\* then-callback: await compressing.tgz.uncompress(out, cacheDir)
HdUncompress ==
  /\ pc = "post_unc" /\ kind = "headers"
  /\ \E ok \in Readable(kind) :
       IF ok THEN /\ node' = TRUE
                  /\ pc' = "post_rename" /\ log' = Logged("uncompress")
                  /\ UNCHANGED kind
             ELSE UNCHANGED node /\ Reject(Logged("uncompress_error"))
  /\ UNCHANGED <<prev, url, cache, options, runs, out, stream, body, nwDir, nodeDir, patch, walk>>

\* then-callback: await rename(cacheDir/node, cacheDir/node-v...)
HdRename ==
  /\ pc = "post_rename" /\ kind = "headers"
  /\ IF RenameOk
       THEN /\ nodeDir' = "plain" /\ node' = FALSE
            /\ Resolve(Logged("rename"))
       ELSE UNCHANGED <<node, nodeDir>> /\ Reject(Logged("rename_error"))
  /\ UNCHANGED <<prev, url, cache, options, runs, out, stream, body, nwDir, patch, walk>>

-----------------------------------------------------------------------------
Next ==
  \/ get \/ Invalidate \/ Check \/ Create
  \/ Response1 \/ Response2 \/ RequestError \/ ResponseDropped
  \/ ResponseEnd \/ ResponseError \/ StreamError
  \/ \E k \in Kinds : StreamFinish(k)
  \/ NwHitRm \/ NwHitUncompress \/ NwRm \/ NwUncompress
  \/ NwWalkOpen \/ NwWalkEntry \/ NwWalkThrow \/ NwWalkClose
  \/ FfHitUncompress \/ FfUncompress \/ FfReplace
  \/ HdHitUncompress \/ HdHitRm \/ HdHitRename \/ HdHitPatch \/ PatchExit
  \/ HdUncompress \/ HdRename

Spec == Init /\ [][Next]_vars

\* The runs of one configuration that takes every pipeline, where every
\* operation that is pending ends: a request fails or is answered, a response
\* emits 'end' or 'error', an awaited file operation returns, a stream
\* finishes, a child process exits. The call of get is left to the caller.
InitLive ==
  /\ Init
  /\ ffmpeg = TRUE /\ nativeAddon = "gyp"
  /\ platform = "osx"
  /\ downloadUrl = DefaultUrl
  /\ flavor = "normal"

Pending ==
  \/ Invalidate \/ Check \/ Create
  \/ Response1 \/ Response2 \/ RequestError \/ ResponseDropped
  \/ ResponseEnd \/ ResponseError \/ StreamError
  \/ \E k \in Kinds : StreamFinish(k)
  \/ NwHitRm \/ NwHitUncompress \/ NwRm \/ NwUncompress
  \/ NwWalkOpen \/ NwWalkEntry \/ NwWalkThrow \/ NwWalkClose
  \/ FfHitUncompress \/ FfUncompress \/ FfReplace
  \/ HdHitUncompress \/ HdHitRm \/ HdHitRename \/ HdHitPatch \/ PatchExit
  \/ HdUncompress \/ HdRename

SpecLive == InitLive /\ [][Next]_vars /\ WF_vars(Pending)

-----------------------------------------------------------------------------
\* One fetch, event by event: the state after createWriteStream(out) and the
\* first getRequest(url, ...), for a url that was built and a first response
\* that carries the location header where it is read.

ChunkSizes == {1, 2}
Bodies == UNION {[1..n -> ChunkSizes] : n \in 1..MaxChunks}

RECURSIVE Size(_)
Size(chunks) == IF chunks = <<>> THEN 0 ELSE Head(chunks) + Size(Tail(chunks))

\* Every variable but transfer and url.
rest == <<cache, ffmpeg, nativeAddon, platform, PLATFORM, downloadUrl, version, flavor, arch,
         located, runs, pc, kind, out, stream, body, dirs, patch, walk, log, prev>>

InitFetch ==
  /\ \E k \in Kinds, b \in Bodies :
       \E len \in {<<>>, <<Size(b)>>} :
         transfer = [kind |-> k,
                     body |-> b,              \* the chunks the streamed response will deliver
                     length |-> len,          \* its content-length header, <<>> when absent
                     requests |-> 1,
                     first |-> "pending",     \* none/pending/open
                     firstErrored |-> FALSE,
                     second |-> "none",
                     delivered |-> 0,         \* chunks handed to the 'data' listeners
                     ended |-> FALSE,
                     errored |-> FALSE,
                     chunks |-> 0,            \* let chunks = 0
                     bar |-> <<>>,            \* the value given to bar.update
                     buffered |-> <<>>,       \* written to the stream, not yet in the file
                     file |-> <<>>,           \* the content of `out`
                     stream |-> "open",
                     promise |-> "pending",
                     jobs |-> 0,              \* then-callbacks queued
                     thens |-> 0,             \* then-callbacks run
                     found |-> <<>>,          \* what the then-callback found in `out`
                     alive |-> TRUE]
  /\ cache = TRUE
  /\ ffmpeg = FALSE
  /\ nativeAddon = "false"
  /\ platform = "linux"
  /\ PLATFORM = "linux"
  /\ downloadUrl \in {DefaultUrl} \cup MirrorUrls
  /\ version = "0.82.0"
  /\ flavor = "normal"
  /\ arch = "x64"
  /\ url = FirstUrl(transfer.kind)
  /\ located = <<>>
  /\ Fresh

\* The response that is piped into the write stream: the first one in
\* getNodeHeaders, the second one in getNwjs and getFfmpeg.
Streamed(t) == IF t.kind = "headers" THEN t.first ELSE t.second
Streaming(t) == Streamed(t) = "open" /\ ~t.ended /\ ~t.errored

\* A promise that can be settled again.
SettleAgain(t, outcome) ==
  [t EXCEPT !.promise = outcome,
            !.jobs = IF outcome = "fulfilled" THEN @ + 1 ELSE @]

\* resolve() and reject(error): a promise is settled once, and the callback of
\* request.then is queued when it is fulfilled.
Settle(t, outcome) ==
  IF t.promise # "pending" THEN t
  ELSE [t EXCEPT !.promise = outcome,
                 !.jobs = IF outcome = "fulfilled" THEN @ + 1 ELSE @]

\* The callback of the first getRequest.
OnResponse1 ==
  /\ transfer.alive /\ transfer.first = "pending"
  /\ transfer' = IF transfer.kind = "headers"
                   THEN [transfer EXCEPT !.first = "open", !.chunks = 0]
                   ELSE [transfer EXCEPT !.first = "open", !.requests = @ + 1,
                                         !.second = "pending"]
  /\ url' = IF FollowsRedirect(transfer.kind) THEN Location ELSE url
  /\ UNCHANGED rest

\* The callback of the second getRequest.
OnResponse2 ==
  /\ transfer.alive /\ transfer.second = "pending"
  /\ transfer' = [transfer EXCEPT !.second = "open", !.chunks = 0]
  /\ UNCHANGED <<url, rest>>

\* response.on("data"): chunks += chunk.length; bar.update(chunks); and the
\* listener of pipe writes the chunk to the stream.
OnData ==
  /\ transfer.alive /\ Streaming(transfer)
  /\ transfer.delivered < Len(transfer.body)
  /\ LET chunk == transfer.body[transfer.delivered + 1] IN
       transfer' = [transfer EXCEPT !.delivered = @ + 1,
                                    !.chunks = @ + chunk,
                                    !.bar = <<transfer.chunks + chunk>>,
                                    !.buffered = Append(@, chunk)]
  /\ UNCHANGED <<url, rest>>

\* The write stream moves its oldest pending chunk into the file.
Flush ==
  /\ transfer.alive /\ transfer.buffered # <<>>
  /\ transfer' = [transfer EXCEPT !.file = Append(@, Head(transfer.buffered)),
                                  !.buffered = Tail(@)]
  /\ UNCHANGED <<url, rest>>

\* response.on("end"): bar.stop(); resolve(); and the listener of pipe ends
\* the stream. Emitted after the last chunk, or after an 'error'.
OnEnd ==
  /\ transfer.alive /\ Streamed(transfer) = "open" /\ ~transfer.ended
  /\ transfer.delivered = Len(transfer.body) \/ transfer.errored
  /\ transfer' = [Settle(transfer, "fulfilled") EXCEPT
                    !.ended = TRUE,
                    !.stream = IF @ = "open" THEN "ending" ELSE @]
  /\ UNCHANGED <<url, rest>>

\* response.on("error") of the streamed response: reject(error). Emitted
\* during the transfer or after 'end'.
OnError ==
  /\ transfer.alive /\ Streamed(transfer) = "open" /\ ~transfer.errored
  /\ transfer' = [Settle(transfer, "rejected") EXCEPT !.errored = TRUE]
  /\ UNCHANGED <<url, rest>>

\* response.on("error") of the first response of getNwjs and getFfmpeg, which
\* is never read: reject(error), at any time after the second request.
OnError1 ==
  /\ transfer.alive /\ transfer.kind # "headers"
  /\ transfer.first = "open" /\ ~transfer.firstErrored
  /\ transfer' = [Settle(transfer, "rejected") EXCEPT !.firstErrored = TRUE]
  /\ UNCHANGED <<url, rest>>

\* 'finish' of the write stream: every chunk is in the file.
Finish ==
  /\ transfer.alive /\ transfer.stream = "ending" /\ transfer.buffered = <<>>
  /\ transfer' = [transfer EXCEPT !.stream = "finished"]
  /\ UNCHANGED <<url, rest>>

\* request.then(async () => ...): the removal and the extraction, which reads
\* the file as it is.
Then ==
  /\ transfer.alive /\ transfer.jobs > 0
  /\ transfer' = [transfer EXCEPT !.jobs = @ - 1, !.thens = @ + 1,
                                  !.found = <<transfer.file>>]
  /\ UNCHANGED <<url, rest>>

\* 'error' on a ClientRequest or on the write stream: no listener, the process dies.
Uncaught ==
  /\ transfer.alive
  /\ \/ "pending" \in {transfer.first, transfer.second}
     \/ transfer.buffered # <<>>
  /\ transfer' = [transfer EXCEPT !.alive = FALSE]
  /\ UNCHANGED <<url, rest>>

NextFetch ==
  \/ OnResponse1 \/ OnResponse2 \/ OnData \/ Flush
  \/ OnEnd \/ OnError \/ OnError1 \/ Finish \/ Then \/ Uncaught

SpecFetch == InitFetch /\ [][NextFetch]_vars

-----------------------------------------------------------------------------
\* What the log of the current run says.

InLog(op, k) == \E i \in 1..Len(log) : log[i] = <<op, k>>
Count(ops, k) == Cardinality({i \in 1..Len(log) : log[i][2] = k /\ log[i][1] \in ops})
Requests(k) == Count({"request", "request_undefined"}, k)
Started(k) == InLog("start_present", k) \/ InLog("start_absent", k)
Rank(k) == CASE k = "runtime" -> 1 [] k = "codec" -> 2 [] k = "headers" -> 3 [] OTHER -> 4
\* Pipeline k was started and has resolved: get has gone past it.
Done(k) == Started(k) /\ Rank(kind) > Rank(k)
Extractions == {"uncompress", "uncompress_error", "open_zip", "open_zip_error"}

\* C1: with cache=true, a pipeline that found its archive present when it
\* started issues no network request in that run.
C1_CacheHitNoRequest ==
  \A k \in Kinds : (cache = TRUE /\ InLog("start_present", k)) => Requests(k) = 0

C1_Witness ==
  /\ pc = "resolved" /\ cache = TRUE
  /\ \A k \in Kinds : InLog("start_present", k) /\ InLog("uncompress", k)

\* C2: with cache=false the cache check of every pipeline misses, and every
\* pipeline that went through its fetch stage issued a network request.
C2_NoCacheAlwaysFetches ==
  \A k \in Kinds :
    (cache = FALSE /\ Started(k)) =>
      /\ ~InLog("exists_hit", k)
      /\ InLog("createWriteStream", k) => Requests(k) >= 1

\* C3: the operations of the three pipelines are ordered runtime, codec,
\* headers, and while a pipeline runs no operation of an earlier pipeline (its
\* write stream included) is still in flight.
C3_StrictlySequential ==
  /\ \A i, j \in 1..Len(log) : i < j => Rank(log[i][2]) <= Rank(log[j][2])
  /\ \A k \in Kinds : (pc \notin Settled /\ Rank(k) < Rank(kind)) => stream[k] \notin {"open", "ending"}

C5_RemovalBeforeExtraction ==
  \A i \in 1..Len(log) :
    log[i][1] \in Extractions =>
      \E j \in 1..(i - 1) : log[j] = <<"rm_dir", log[i][2]>>

\* C6: a further run with the same options against the same remote content
\* ends as the run before it did, with the same extracted tree; in particular
\* it does not fail on the directory the earlier run left.
Quiet == pc \in {"resolved", "rejected"} /\ patch # "running" /\ \A k \in Kinds : stream[k] # "ending"
C6_Idempotent ==
  /\ (Quiet /\ runs >= 2 /\ cache = prev.cache /\ Benign /\ prev.benign
        /\ prev.outcome \in {"resolved", "rejected"}) =>
       /\ pc = prev.outcome
       /\ nwDir = prev.nwDir
       /\ (nodeDir # "none") = prev.nodeDir
  /\ ~(pc = "rejected" /\ Len(log) > 0 /\ log[Len(log)][1] = "rename_error" /\ nodeDir # "none")

\* C7: the runtime archive is extracted by the entry walk exactly when the
\* target is osx and the host is osx, after a download and on a cache hit.
C7_EntryWalkIffOsxOnOsx ==
  nwDir.mode # "none" => (nwDir.mode = "walk" <=> EntryWalk)

\* C8: in the entry walk, the entries after an entry that failed are still
\* extracted.
C8_LaterEntriesExtracted ==
  (zip = "closed" /\ failed # 0) =>
    \A j \in Entries : j > failed => j \in nwDir.entries

\* C9: an opened archive handle is closed before the extraction step settles,
\* after the last entry as after an error on any entry.
C9_HandleClosed ==
  zip = "open" => (kind = "runtime" /\ pc \in {"walk", "walk_close"})

C9_Witness == zip = "closed" /\ failed # 0 /\ failed < NEntries /\ pc = "resolved"

\* C10: an entry-level error of the walk is not propagated: the runtime
\* pipeline does not reject, and get goes on to the pipelines opted into.
C10_EntryErrorNotPropagated ==
  failed # 0 =>
    /\ ~(kind = "runtime" /\ pc \in {"rejected", "crashed"})
    /\ (zip = "closed") =>
         /\ Done("runtime")
         /\ ffmpeg = TRUE => Started("codec")
         /\ (nativeAddon = "gyp" /\ (ffmpeg = TRUE => Done("codec"))) => Started("headers")

C10_Witness ==
  /\ failed # 0 /\ pc = "resolved"
  /\ ffmpeg = TRUE /\ nativeAddon = "gyp"
  /\ Started("codec") /\ Started("headers")
-----------------------------------------------------------------------------
\* Failures of the fetch and of the stages after it.

\* C12: a connection-level failure of a request, before any response is
\* delivered, ends the fetch as a network error: the pipeline is rejected and
\* get rejects, for every kind.
C12_ConnectionFailureRejects ==
  \A k \in Kinds : InLog("request_error", k) => pc = "rejected"

\* C13: a response body that is not the archive (a non-success status) is never
\* accepted: no extraction of that archive is started and get does not resolve.
C13_BadStatusRejects ==
  \A k \in Kinds :
    body[k] = "junk" =>
      /\ pc # "resolved"
      /\ \A op \in Extractions : ~InLog(op, k)

\* C14: a first response without a location header, where the redirect is
\* followed, ends the fetch as a network error: get rejects, it neither stays
\* unsettled nor resolves.
C14_MissingLocationRejects ==
  \A k \in Kinds : (InLog("request_undefined", k) /\ pc \in Settled) => pc = "rejected"

\* C15: a write failure on the archive file during the transfer rejects the
\* pipeline and get, and no extraction of that archive is started.
C15_WriteFailureRejects ==
  \A k \in Kinds :
    InLog("stream_error", k) =>
      /\ pc = "rejected"
      /\ \A op \in Extractions : ~InLog(op, k)

\* The failures that are neither entry-level extraction errors nor patch errors.
Fatal == (Failures \ {"entry_error"}) \cup {"rename_error"}

\* C16: once a stage fails, other than by an entry-level extraction error or a
\* patch error, get rejects and nothing more is done: no later stage, no later
\* pipeline, no further request.
C16_FailureAbortsRun ==
  \A i \in 1..Len(log) :
    log[i][1] \in Fatal => (pc = "rejected" /\ i = Len(log))

\* C17: a codec pipeline that completed, on a hit as well as on a miss, has run
\* the relocation after the decompression.
C17_RelocateAfterDecompress ==
  (Done("codec") \/ (pc = "resolved" /\ Started("codec"))) =>
    \E i, j \in 1..Len(log) :
      i < j /\ log[i] = <<"uncompress", "codec">> /\ log[j] = <<"replaceFfmpeg", "codec">>

\* C18: a headers pipeline whose extraction succeeded, on a miss as well as on
\* a hit, runs PATCH as its last stage, after the extraction and the rename.
C18_PatchLast ==
  (pc = "resolved" /\ InLog("uncompress", "headers")) =>
    /\ log[Len(log)] = <<"exec_patch", "headers">>
    /\ InLog("rename", "headers")

\* C19: a failure of PATCH does not fail the run: the headers pipeline has
\* resolved and get has resolved.
C19_PatchFailureIgnored ==
  patch = "failed" => pc = "resolved"

C19_Witness ==
  /\ patch = "failed" /\ pc = "resolved"
  /\ log[Len(log)] = <<"exec_patch", "headers">>

\* {downloadUrl}/v{version}/nwjs[-sdk]-v{version}-{platform}-{arch}.{tar.gz|zip}
BuiltUrl ==
  downloadUrl \o "/v" \o version \o "/nwjs" \o (IF flavor = "sdk" THEN "-sdk" ELSE "")
              \o "-v" \o version \o "-" \o platform \o "-" \o arch
              \o "." \o (IF platform = "linux" THEN "tar.gz" ELSE "zip")

\* C20: for every downloadUrl, the runtime fetch sends its initial request, and
\* sends it to the URL built from that base.
C20_InitialRequestUrl ==
  InLog("createWriteStream", "runtime") =>
    /\ InLog("request", "runtime")
    /\ (kind = "runtime" /\ pc = "req1") => url = BuiltUrl

\* C21: where the redirect is followed (a mirror host for the runtime, always
\* for the codec) the second request goes to the location header of the first
\* response and the body written is the one of the second response; a fetch
\* issues at most two requests, whatever the second response carries.
C21_OneLevelRedirect ==
  /\ (pc \in {"req2", "body"} /\ (kind = "codec" \/ (kind = "runtime" /\ downloadUrl \in MirrorUrls)))
       => url = Location
  /\ \A k \in Kinds : Requests(k) <= 2
  /\ \A k \in {"runtime", "codec"} :
       body[k] # "none" => Count({"request"}, k) = 2

C21_Witness ==
  /\ kind = "runtime" /\ pc = "post_rm" /\ downloadUrl \in MirrorUrls
  /\ url = Location
  /\ Requests("runtime") = 2
  /\ body["runtime"] = "good"

\* C23: a run with cache=true that follows a run that resolved without any
\* failure issues no request for any kind it processes, leaves every archive
\* as the first run left it, and leaves the content of the runtime directory,
\* codec included, as it was.
C23_SecondRunFromCache ==
  (prev.outcome = "resolved" /\ prev.benign /\ cache = TRUE /\ pc = "resolved") =>
    /\ \A k \in Kinds : Started(k) => (Requests(k) = 0 /\ out[k] = "good")
    /\ nwDir.exists = prev.nwDir.exists
    /\ nwDir.entries = prev.nwDir.entries
    /\ nwDir.codec = prev.nwDir.codec

\* get rejected because no download url could be built from downloadUrl.
ConfigFailure ==
  /\ pc = "rejected" /\ kind = "runtime"
  /\ ~UrlBuilt /\ url = ""
  /\ InLog("exists_miss", "runtime")

\* C24: when get fails because of its configuration it has done no I/O: no
\* file of cacheDir was removed, created or opened for writing, and no request
\* was sent.
C24_ConfigFailureBeforeIO ==
  ConfigFailure =>
    /\ ~InLog("rm_out", "runtime")
    /\ ~InLog("createWriteStream", "runtime")
    /\ out["runtime"] = "none" /\ stream["runtime"] = "none"
    /\ Requests("runtime") = 0

\* C25: no removal and no extraction of a pipeline is started while the write
\* stream of its archive has not finished: the 'end' of the response is not
\* enough.
C25_NoReadWhileWriting ==
  \A k \in Kinds :
    stream[k] = "ending" =>
      /\ ~InLog("rm_dir", k)
      /\ \A op \in Extractions : ~InLog(op, k)

\* C26: when get has settled, nothing it started is still running; in
\* particular the patch command of the headers pipeline has exited.
C26_NothingRunningWhenSettled ==
  pc \in {"resolved", "rejected"} => patch # "running"

\* C27: when the codec pipeline is started, and from then on, the runtime
\* directory holds every entry of the runtime archive, and it exists before
\* the codec is extracted into it.
C27_RuntimeTreeComplete ==
  Started("codec") =>
    /\ nwDir.entries = Entries
    /\ (kind = "codec" /\ pc \in {"invalidate", "check", "hit_unc", "create"}) => nwDir.exists

\* C30: an archive that a cache check finds present was completely written by
\* a fetch that ended with the success outcome; a run that failed leaves no
\* archive that a later run takes for a hit.
C30_HitIsComplete ==
  \A k \in Kinds : InLog("exists_hit", k) => out[k] \in {"good", "junk"}

-----------------------------------------------------------------------------
\* The archive paths (checked under SpecPath).

BothLocated == located.a.path # NotLocated /\ located.b.path # NotLocated

DistinctPairs ==
  located.a.target # located.b.target \/ located.a.kind # located.b.kind

\* Two pairs of one kind, codec or headers, whose targets differ in flavor only.
FlavorOnly ==
  /\ located.a.kind = located.b.kind
  /\ located.a.kind \in {"codec", "headers"}
  /\ located.a.target.version = located.b.target.version
  /\ located.a.target.platform = located.b.target.platform
  /\ located.a.target.arch = located.b.target.arch

\* C11 (as stated): any two distinct (target, kind) pairs have different archive
\* paths in one cacheDir, two targets that differ only in flavor for the codec
\* or the headers kind included.
C11_Injective ==
  BothLocated /\ DistinctPairs => located.a.path # located.b.path

\* C11 (amended): two distinct (target, kind) pairs have different archive paths
\* in one cacheDir, unless they are of the same kind, codec or headers, and their
\* targets differ only in flavor; those two share one archive path.
C11_InjectiveUpToFlavor ==
  BothLocated /\ DistinctPairs =>
    (located.a.path = located.b.path <=> FlavorOnly)

C11_Witness ==
  /\ BothLocated
  /\ located.a.kind = "runtime" /\ located.b.kind = "runtime"
  /\ located.a.target.flavor = "normal" /\ located.b.target.flavor = "sdk"
  /\ [located.a.target EXCEPT !.flavor = "sdk"] = located.b.target
  /\ located.a.path # located.b.path

-----------------------------------------------------------------------------
\* One fetch (checked under SpecFetch).

\* C22: when the fetch has ended with the success outcome, the archive file
\* holds the chunks of the response body in arrival order, none lost, and the
\* progress reported equals the file size, and the content-length when present.
C22_FileIsBody ==
  transfer.promise = "fulfilled" =>
    /\ transfer.file = transfer.body
    /\ transfer.bar = <<Size(transfer.file)>>
    /\ transfer.length # <<>> => transfer.bar = transfer.length

\* C28: a fetch has one terminal outcome: once the promise is settled its
\* outcome never changes, whatever event of either response comes later, and
\* the then-callback, which starts the extraction, runs at most once and only
\* for a fulfilled promise.
C28_SingleOutcome ==
  [][/\ transfer.promise # "pending" => transfer'.promise = transfer.promise
     /\ transfer'.jobs + transfer'.thens <= 1
     /\ transfer'.jobs + transfer'.thens = 1 => transfer'.promise = "fulfilled"]_vars

C28_Witness ==
  /\ transfer.promise = "fulfilled" /\ transfer.thens = 1
  /\ transfer.ended /\ transfer.errored /\ transfer.firstErrored

\* C29: at most one response of a fetch is open at any moment; in particular,
\* for the runtime kind and the default host, the first response is no longer
\* open and unread while the second one is streamed.
C29_OneDownloadInFlight ==
  (transfer.kind = "runtime" /\ downloadUrl = DefaultUrl) =>
    ~(/\ transfer.first = "open" /\ ~transfer.firstErrored
      /\ transfer.second = "open" /\ Streaming(transfer))

-----------------------------------------------------------------------------
\* Termination (checked under SpecLive).

\* C31: every run of get that was started eventually ends: get resolves or
\* rejects, or the process is brought down by an error; no run is left waiting
\* for ever when nothing is pending.
C31_EventuallySettles ==
  (pc \notin Settled) ~> (pc \in {"resolved", "rejected", "crashed"})

=============================================================================
